---- MODULE Spec2Model ----
(***************************************************************************)
(* Dynamic service-principal provisioning and request routing of           *)
(* chat_application/chat_app.py.                                           *)
(*                                                                         *)
(* use_credentials (the "bind" operation) is a sequence of blocking calls  *)
(* to three remote services: the SQL warehouse (statement execution), the  *)
(* identity directory (service principals, secrets) and the permission     *)
(* service (ACL PATCH).  Each remote call is one step of the thread that   *)
(* runs the handler, so that two handlers interleave exactly at their      *)
(* service calls.  query_endpoint (the "route" operation) reads the        *)
(* process-wide client cache and invokes the serving endpoint.             *)
(***************************************************************************)
EXTENDS Integers, Sequences, FiniteSets, TLC

(***************************************************************************)
(* Bounds of the model.                                                    *)
(***************************************************************************)
\* handler calls (use_credentials, query_endpoint) begun in one behaviour
MaxCalls == 2
\* service calls that do not report success (FAILED, PENDING, exception)
MaxFaults == 1
\* statements the warehouse still runs after the wait timeout returned
MaxInflight == 1

\* handler threads of the web front end that can run use_credentials
Threads == {"t1", "t2"}
\* values of the two text boxes; "" is the empty box
Users == {"", "u1", "u2"}
Clients == {"", "c1", "c2"}
\* the (user_id, client_id) pairs use_credentials is called with
Inputs ==
    { <<"", "c1">>, <<"u1", "">>,
      <<"u1", "c1">>, <<"u1", "c2">>, <<"u2", "c1">> }

\* Python's None for sp_application_id / sp_numeric_id / an absent result
None == "None"

\* w, the default WorkspaceClient of the process
DefaultClient == [client_id |-> "w", client_secret |-> 0]

\* states a statement can be in when execute_statement returns
SqlStates == {"SUCCEEDED", "FAILED", "PENDING"}

VARIABLES
    sp_mapping,         \* SP_MAPPING_TABLE: rows (username, service_principal_id)
    client_mapping,     \* CLIENT_MAPPING_TABLE: rows (username, client_id)
    principals,         \* the identity directory's service principals
    grants,             \* ACL entries and Unity Catalog grants in force
    secrets,            \* OAuth secrets minted, as a sequence of numeric ids
    inflight,           \* statements still running in the warehouse
    sp_clients,         \* _sp_clients: user_id -> authenticated client
    pc,                 \* per thread: position in use_credentials
    user_id,            \* per thread: argument
    client_id,          \* per thread: argument
    sp_application_id,  \* per thread: local
    sp_numeric_id,      \* per thread: local
    secret,             \* per thread: local, the secret minted (secret_response)
    log,                \* per thread: the service calls this call has issued
    raced,              \* users for whom two use_credentials calls overlapped
    hist,               \* the finished use_credentials calls, in order of return
    calls,              \* number of use_credentials calls begun
    faults,             \* number of service calls that did not report success
    ruser,              \* query_endpoint: user_id of the last chat turn
    rclient,            \* query_endpoint: the client the last chat turn used
    rinput,             \* query_endpoint: the message list the last chat turn sent
    rresult,            \* query_endpoint: what the last chat turn gave its caller
    rraw,               \* query_endpoint: whether client.api_client.do raised in the last
                        \* chat turn, and the place in BodySeq of the body it returned
    rduring             \* the use_credentials calls for ruser under way at the last chat turn

store == <<sp_mapping, client_mapping, principals, grants, secrets, inflight>>
locals == <<pc, user_id, client_id, sp_application_id, sp_numeric_id, log>>
router == <<ruser, rclient, rinput, rresult, rraw, rduring>>
vars == <<store, sp_clients, locals, secret, raced, hist, calls, faults, router>>

(***************************************************************************)
(* The remote services.                                                    *)
(***************************************************************************)
\* application id and numeric id of the k-th principal the directory creates
AppIdOf(k) == "app-" \o ToString(k)
NumIdOf(k) == ToString(k)
DisplayName(u) == "sp-" \o u

\* w.service_principals.create(display_name, active=True)
NewPrincipal(name) ==
    LET k == Cardinality(principals) + 1
    IN  [id |-> NumIdOf(k), application_id |-> AppIdOf(k),
         display_name |-> name, active |-> TRUE]

\* w.service_principals.list(filter="displayName eq '<name>'")
ListByName(name) == {sp \in principals : sp.display_name = name}

\* the SELECT without its WHERE clause
SelectEveryPrincipal(u) == {r.service_principal_id : r \in sp_mapping}

\* SELECT service_principal_id FROM sp_mapping WHERE username = u
SelectPrincipal(u) ==
    {r.service_principal_id : r \in {x \in sp_mapping : x.username = u}}

\* INSERT INTO sp_mapping (username, service_principal_id) VALUES (u, a)
InsertRow(tbl, u, a) == tbl \cup {[username |-> u, service_principal_id |-> a]}

\* MERGE INTO client_mapping ... ON target.username = a
\*   WHEN MATCHED THEN UPDATE SET client_id = c  WHEN NOT MATCHED THEN INSERT
MergeRow(tbl, a, c) ==
    IF \E r \in tbl : r.username = a
    THEN {IF r.username = a THEN [r EXCEPT !.client_id = c] ELSE r : r \in tbl}
    ELSE tbl \cup {[username |-> a, client_id |-> c]}

\* the statements use_credentials sends that change something
InsertStmt(u, a) == [kind |-> "INSERT", a |-> u, b |-> a]
MergeStmt(a, c) == [kind |-> "MERGE", a |-> a, b |-> c]
GrantStmt(what, a) == [kind |-> "GRANT", a |-> what, b |-> a]

UcGrant(what, a) == [resource |-> what, principal |-> a, level |-> "UC"]

\* the effect of a statement on each table when the warehouse completes it
ApplySp(s, tbl) == IF s.kind = "INSERT" THEN InsertRow(tbl, s.a, s.b) ELSE tbl
ApplyClient(s, tbl) == IF s.kind = "MERGE" THEN MergeRow(tbl, s.a, s.b) ELSE tbl
ApplyGrants(s, g) == IF s.kind = "GRANT" THEN g \cup {UcGrant(s.a, s.b)} ELSE g

\* _execute_sql raises RuntimeError exactly on StatementState.FAILED
ExecRaisesNever(st) == FALSE
ExecRaises(st) == st = "FAILED"

(***************************************************************************)
(* Bookkeeping shared by the steps of use_credentials.                     *)
(***************************************************************************)
Ok(st) == st \in {"SUCCEEDED", "ok"}
Budget(st) == Ok(st) \/ faults < MaxFaults
Count(st) == faults' = IF Ok(st) THEN faults ELSE faults + 1

Logged(t, op, arg, st) ==
    log' = [log EXCEPT ![t] = Append(@, [op |-> op, arg |-> arg, status |-> st])]

\* what the stores hold for user u: the directory's principals named sp-<u>,
\* the principals the mapping table gives u, and the client rows of those;
\* an entry of hist records them, and the calls issued, as a call returns
SpsOf(u) == {sp.application_id : sp \in ListByName(DisplayName(u))}
ClientRowsOf(u) == {r \in client_mapping : r.username \in SelectPrincipal(u)}
Entry(t, u, c, res, lg) ==
    [thread |-> t, user |-> u, client |-> c, result |-> res, log |-> lg,
     stored |-> IF res = "success"
                THEN [client_id |-> sp_application_id[t], client_secret |-> secret[t]]
                ELSE DefaultClient,
     sps |-> SpsOf(u), rows |-> SelectPrincipal(u), crows |-> ClientRowsOf(u)]

Goto(t, l) == pc' = [pc EXCEPT ![t] = l] /\ hist' = hist /\ raced' = raced
Return(t, res) ==
    /\ pc' = [pc EXCEPT ![t] = res]
    /\ hist' = Append(hist, Entry(t, user_id[t], client_id[t], res, log'[t]))
    /\ raced' = raced

\* _execute_sql(statement) for a statement s that changes a table: the
\* warehouse completes it, rejects it, or is still running it at the timeout
Execute(t, op, arg, s, next) ==
    \E st \in SqlStates :
        /\ Budget(st) /\ Count(st) /\ Logged(t, op, arg, st)
        /\ st = "PENDING" => Cardinality(inflight \cup {s}) <= MaxInflight
        /\ sp_mapping' = IF st = "SUCCEEDED" THEN ApplySp(s, sp_mapping) ELSE sp_mapping
        /\ client_mapping' =
               IF st = "SUCCEEDED" THEN ApplyClient(s, client_mapping) ELSE client_mapping
        /\ grants' = IF st = "SUCCEEDED" THEN ApplyGrants(s, grants) ELSE grants
        /\ inflight' = IF st = "PENDING" THEN inflight \cup {s} ELSE inflight
        /\ IF ExecRaises(st) THEN Return(t, "raised") ELSE Goto(t, next)
        /\ UNCHANGED <<principals, secrets, sp_clients, user_id, client_id,
                       sp_application_id, sp_numeric_id, secret, calls, router>>

\* a call to the identity directory or the permission service that raises
Raised(t, op, arg) ==
    /\ Budget("raise") /\ Count("raise") /\ Logged(t, op, arg, "raise")
    /\ Return(t, "raised")
    /\ UNCHANGED <<store, sp_clients, user_id, client_id, sp_application_id,
                   sp_numeric_id, secret, calls, router>>

(***************************************************************************)
(* use_credentials(user_id, client_id), one action per service call.       *)
(***************************************************************************)
Idle(t) == pc[t] \in {"idle", "validation", "success", "raised"}

\* line 59: the guard on the two arguments
InvalidUserOnly(u, c) == u = ""
Invalid(u, c) == u = "" \/ c = ""

\* the handler is entered with the contents of the two text boxes
Begin(t) ==
    /\ Idle(t) /\ calls < MaxCalls
    /\ \E u \in Users, c \in Clients :
        /\ <<u, c>> \in Inputs
        /\ user_id' = [user_id EXCEPT ![t] = u]
        /\ client_id' = [client_id EXCEPT ![t] = c]
        /\ IF Invalid(u, c)
           THEN /\ pc' = [pc EXCEPT ![t] = "validation"]
                /\ hist' = Append(hist, Entry(t, u, c, "validation", <<>>))
                /\ raced' = raced
           ELSE /\ pc' = [pc EXCEPT ![t] = "lookup"]
                /\ hist' = hist
                /\ raced' = IF \E o \in Threads \ {t} : ~Idle(o) /\ user_id[o] = u
                            THEN raced \cup {u} ELSE raced
    /\ calls' = calls + 1
    /\ log' = [log EXCEPT ![t] = <<>>]
    /\ sp_application_id' = [sp_application_id EXCEPT ![t] = None]
    /\ sp_numeric_id' = [sp_numeric_id EXCEPT ![t] = None]
    /\ secret' = [secret EXCEPT ![t] = 0]
    /\ UNCHANGED <<store, sp_clients, faults, router>>

\* lines 63-70: the SELECT, and the test of lookup.result.data_array
Lookup(t) ==
    /\ pc[t] = "lookup"
    /\ \E st \in SqlStates :
        /\ Budget(st) /\ Count(st) /\ Logged(t, "SELECT", user_id[t], st)
        /\ IF ExecRaises(st)
           THEN Return(t, "raised") /\ UNCHANGED sp_application_id
           ELSE IF st = "SUCCEEDED" /\ SelectPrincipal(user_id[t]) # {}
           THEN \E a \in SelectPrincipal(user_id[t]) :
                    /\ sp_application_id' = [sp_application_id EXCEPT ![t] = a]
                    /\ Goto(t, "list")
           ELSE Goto(t, "create") /\ UNCHANGED sp_application_id
    /\ UNCHANGED <<store, sp_clients, user_id, client_id, sp_numeric_id, secret,
                   calls, router>>

\* a lookup that leaves sp_numeric_id as it was initialised at line 67
NumericIdUnresolved(name, a) == None
\* lines 73-76: the numeric id of the listed principal with that application id
NumericIdOf(name, a) ==
    IF \E sp \in ListByName(name) : sp.application_id = a
    THEN (CHOOSE sp \in ListByName(name) : sp.application_id = a).id
    ELSE None

ListPrincipals(t) ==
    /\ pc[t] = "list"
    /\ \/ Raised(t, "LIST", DisplayName(user_id[t]))
       \/ /\ Logged(t, "LIST", DisplayName(user_id[t]), "ok")
          /\ sp_numeric_id' = [sp_numeric_id EXCEPT ![t] =
                 NumericIdOf(DisplayName(user_id[t]), sp_application_id[t])]
          /\ Goto(t, "merge")
          /\ UNCHANGED <<store, sp_clients, user_id, client_id, sp_application_id,
                         secret, calls, faults, router>>

\* lines 79-82: no principal recorded for the user, create one
CreatePrincipal(t) ==
    /\ pc[t] = "create"
    /\ \/ Raised(t, "CREATE", DisplayName(user_id[t]))
       \/ LET sp == NewPrincipal(DisplayName(user_id[t]))
          IN  /\ Logged(t, "CREATE", DisplayName(user_id[t]), "ok")
              /\ principals' = principals \cup {sp}
              /\ sp_application_id' = [sp_application_id EXCEPT ![t] = sp.application_id]
              /\ sp_numeric_id' = [sp_numeric_id EXCEPT ![t] = sp.id]
              /\ Goto(t, "insert")
              /\ UNCHANGED <<sp_mapping, client_mapping, grants, secrets, inflight,
                             sp_clients, user_id, client_id, secret, calls, faults,
                             router>>

\* lines 83-86
InsertMapping(t) ==
    /\ pc[t] = "insert"
    /\ Execute(t, "INSERT", sp_application_id[t],
               InsertStmt(user_id[t], sp_application_id[t]), "merge")

\* lines 89-95
UpsertClient(t) ==
    /\ pc[t] = "merge"
    /\ Execute(t, "MERGE", sp_application_id[t],
               MergeStmt(sp_application_id[t], client_id[t]), "endpoint")

\* line 98: w.serving_endpoints.get(name=SERVING_ENDPOINT_NAME)
GetEndpoint(t) ==
    /\ pc[t] = "endpoint"
    /\ \/ Raised(t, "GET_ENDPOINT", "")
       \/ /\ Logged(t, "GET_ENDPOINT", "", "ok")
          /\ Goto(t, "acl_endpoint")
          /\ UNCHANGED <<store, sp_clients, user_id, client_id, sp_application_id,
                         sp_numeric_id, secret, calls, faults, router>>

\* a PATCH of one access-control entry on a permissions object
Patch(t, op, resource, level, next) ==
    \/ Raised(t, op, sp_application_id[t])
    \/ /\ Logged(t, op, sp_application_id[t], "ok")
       /\ grants' = grants \cup
              {[resource |-> resource, principal |-> sp_application_id[t],
                level |-> level]}
       /\ Goto(t, next)
       /\ UNCHANGED <<sp_mapping, client_mapping, principals, secrets, inflight,
                      sp_clients, user_id, client_id, sp_application_id,
                      sp_numeric_id, secret, calls, faults, router>>

\* lines 99-110
GrantEndpoint(t) ==
    /\ pc[t] = "acl_endpoint"
    /\ Patch(t, "ACL_ENDPOINT", "serving-endpoint", "CAN_QUERY", "acl_genie")

\* lines 113-124
GrantGenieSkipped(t) ==
    /\ pc[t] = "acl_genie"
    /\ Goto(t, "grant_catalog")
    /\ UNCHANGED <<store, sp_clients, user_id, client_id, sp_application_id,
                   sp_numeric_id, secret, log, calls, faults, router>>
GrantGenie(t) ==
    /\ pc[t] = "acl_genie"
    /\ Patch(t, "ACL_GENIE", "genie", "CAN_RUN", "grant_catalog")

\* lines 127-129
GrantCatalog(t) ==
    /\ pc[t] = "grant_catalog"
    /\ Execute(t, "GRANT_CATALOG", sp_application_id[t],
               GrantStmt("catalog", sp_application_id[t]), "grant_schema")

GrantSchema(t) ==
    /\ pc[t] = "grant_schema"
    /\ Execute(t, "GRANT_SCHEMA", sp_application_id[t],
               GrantStmt("schema", sp_application_id[t]), "grant_table")

GrantTable(t) ==
    /\ pc[t] = "grant_table"
    /\ Execute(t, "GRANT_TABLE", sp_application_id[t],
               GrantStmt("table", sp_application_id[t]), "secret")

\* lines 132-135: POST .../servicePrincipals/{sp_numeric_id}/credentials/secrets;
\* the directory knows no principal under the id "None"
MintSecret(t) ==
    /\ pc[t] = "secret"
    /\ \/ Raised(t, "SECRET", sp_numeric_id[t])
       \/ /\ ~ \E sp \in principals : sp.id = sp_numeric_id[t]
          /\ Logged(t, "SECRET", sp_numeric_id[t], "raise")
          /\ Return(t, "raised")
          /\ UNCHANGED <<store, sp_clients, user_id, client_id, sp_application_id,
                         sp_numeric_id, secret, calls, faults, router>>
       \/ /\ \E sp \in principals : sp.id = sp_numeric_id[t]
          /\ Logged(t, "SECRET", sp_numeric_id[t], "ok")
          /\ secrets' = Append(secrets, sp_numeric_id[t])
          /\ secret' = [secret EXCEPT ![t] = Len(secrets) + 1]
          /\ Goto(t, "cache")
          /\ UNCHANGED <<sp_mapping, client_mapping, principals, grants, inflight,
                         sp_clients, user_id, client_id, sp_application_id,
                         sp_numeric_id, calls, faults, router>>

\* a cache keyed by the client_id argument instead
CachedKeyClient(t) == client_id[t]
\* lines 136-142: _sp_clients[user_id] = WorkspaceClient(...), and the return
CachedKey(t) == user_id[t]
CacheClient(t) ==
    /\ pc[t] = "cache"
    /\ sp_clients' = [u \in DOMAIN sp_clients \cup {CachedKey(t)} |->
           IF u = CachedKey(t)
           THEN [client_id |-> sp_application_id[t], client_secret |-> secret[t]]
           ELSE sp_clients[u]]
    /\ Logged(t, "CACHE", user_id[t], "ok")
    /\ Return(t, "success")
    /\ UNCHANGED <<store, user_id, client_id, sp_application_id, sp_numeric_id,
                   secret, calls, faults, router>>

(***************************************************************************)
(* The warehouse finishes, or gives up, a statement it was still running   *)
(* when execute_statement returned at the wait timeout.                    *)
(***************************************************************************)
WarehouseComplete ==
    \E s \in inflight :
        /\ inflight' = inflight \ {s}
        /\ sp_mapping' = ApplySp(s, sp_mapping)
        /\ client_mapping' = ApplyClient(s, client_mapping)
        /\ grants' = ApplyGrants(s, grants)
        /\ UNCHANGED <<principals, secrets, sp_clients, locals, secret, raced, hist, calls,
                       faults, router>>

WarehouseFail ==
    \E s \in inflight :
        /\ inflight' = inflight \ {s}
        /\ UNCHANGED <<sp_mapping, client_mapping, principals, grants, secrets,
                       sp_clients, locals, secret, raced, hist, calls, faults, router>>

(***************************************************************************)
(* Response bodies of the serving endpoint, as JSON values.                *)
(***************************************************************************)
JMissing == [t |-> "missing"]            \* the key is not in the dict
JNull == [t |-> "null"]                  \* JSON null, Python None
JInt == [t |-> "int"]                    \* a non-zero number
JStr(s) == [t |-> "str", s |-> s]
JList(items) == [t |-> "list", items |-> items]
\* a dict, by the three keys _extract_response_text reads
JDict(type, text, content) ==
    [t |-> "dict", type |-> type, text |-> text, content |-> content]

OutputText(text) == JDict(JStr("output_text"), text, JMissing)
Message(blocks) == JDict(JStr("message"), JMissing, JList(blocks))
TextItem(text) == JDict(JMissing, text, JMissing)

\* a response body: its top-level keys in order, and the three keys read
RawBody(keys, output, outputs, predictions) ==
    [keys |-> keys, output |-> output, outputs |-> outputs,
     predictions |-> predictions]

\* the response bodies considered, in a fixed order
BodySeq ==
    << RawBody(<<>>, JMissing, JMissing, JMissing),
      RawBody(<<"error_code", "message">>, JMissing, JMissing, JMissing),
      RawBody(<<"output">>, JList(<<Message(<<OutputText(JStr("A"))>>)>>),
              JMissing, JMissing),
      RawBody(<<"output">>, JList(<<TextItem(JStr("B"))>>), JMissing, JMissing),
      RawBody(<<"output">>,
              JList(<<Message(<<OutputText(JStr("A")), OutputText(JStr("B"))>>),
                      JStr("C"), TextItem(JStr("D"))>>),
              JMissing, JMissing),
      RawBody(<<"outputs">>, JMissing, JList(<<JStr("A"), JStr("B")>>), JMissing),
      RawBody(<<"predictions">>, JMissing, JMissing, JList(<<JStr("A")>>)),
      RawBody(<<"output">>, JList(<<>>), JMissing, JMissing),
      RawBody(<<"output", "outputs">>, JNull, JList(<<JStr("A")>>), JMissing),
      RawBody(<<"output">>,
              JList(<<Message(<<JDict(JStr("reasoning"), JStr("R"), JMissing)>>)>>),
              JMissing, JMissing),
      RawBody(<<"output">>,
              JList(<<JDict(JStr("message"), JStr("T"), JMissing), JInt>>),
              JMissing, JMissing),
      RawBody(<<"output">>, JList(<<Message(<<OutputText(JMissing)>>)>>),
              JMissing, JMissing),
      RawBody(<<"output">>, JList(<<TextItem(JNull)>>), JMissing, JMissing),
      RawBody(<<"output">>, JList(<<JDict(JStr("message"), JMissing, JStr("hi"))>>),
              JMissing, JMissing),
      RawBody(<<"output">>, JList(<<JDict(JStr("message"), JMissing, JNull)>>),
              JMissing, JMissing),
      RawBody(<<"output">>, JInt, JMissing, JMissing) >>
Bodies == {BodySeq[i] : i \in DOMAIN BodySeq}

(***************************************************************************)
(* _extract_response_text(raw)                                             *)
(***************************************************************************)
Text(parts) == [kind |-> "text", parts |-> parts]
Raises(exc) == [kind |-> "raise", parts |-> <<exc>>]

\* line 148: raw.get("output", raw.get("outputs", raw.get("predictions")))
Output(raw) ==
    IF raw.output.t # "missing" THEN raw.output
    ELSE IF raw.outputs.t # "missing" THEN raw.outputs
    ELSE IF raw.predictions.t # "missing" THEN raw.predictions
    ELSE JNull

\* line 149: not output
Falsy(v) ==
    \/ v.t = "null"
    \/ v.t = "list" /\ v.items = <<>>
    \/ v.t = "str" /\ v.s = ""

RECURSIVE Flatten(_)
Flatten(ss) == IF ss = <<>> THEN <<>> ELSE Head(ss) \o Flatten(Tail(ss))

\* line 167: "\n\n".join(text_parts)
RECURSIVE Join(_)
Join(parts) ==
    IF Len(parts) <= 1 THEN parts
    ELSE <<Head(parts), "\n\n">> \o Join(Tail(parts))

\* lines 157-159: the blocks of a message item's content
BlockRaises(b) == b.t # "dict"
BlockText(b) ==
    IF b.type = JStr("output_text")
    THEN <<IF b.text.t = "missing" THEN JStr("") ELSE b.text>>
    ELSE <<>>
ContentRaises(c) ==
    \/ c.t \in {"null", "int"}
    \/ c.t = "str" /\ c.s # ""
    \/ c.t = "list" /\ \E i \in DOMAIN c.items : BlockRaises(c.items[i])
ContentParts(c) ==
    IF c.t = "list"
    THEN Flatten([i \in DOMAIN c.items |-> BlockText(c.items[i])])
    ELSE <<>>

\* lines 153-164: one item of the output list
ItemRaises(it) ==
    it.t = "dict" /\ it.type = JStr("message") /\ ContentRaises(it.content)
ItemParts(it) ==
    IF it.t = "dict"
    THEN IF it.type = JStr("message") THEN ContentParts(it.content)
         ELSE IF it.text.t # "missing" THEN <<it.text>>
         ELSE <<>>
    ELSE IF it.t = "str" THEN <<it>>
    ELSE <<>>

ExtractResponseText(raw) ==
    LET output == Output(raw) IN
    IF Falsy(output)
    THEN Text(<<"No response parsed. Raw response keys: ">> \o raw.keys)
    ELSE IF output.t # "list" THEN Raises("TypeError")
    ELSE IF \E i \in DOMAIN output.items : ItemRaises(output.items[i])
    THEN Raises("AttributeError")
    ELSE LET text_parts ==
                 Flatten([i \in DOMAIN output.items |-> ItemParts(output.items[i])])
         IN  IF text_parts = <<>> THEN Text(<<"str(output)">>)
             ELSE IF \E i \in DOMAIN text_parts : text_parts[i].t # "str"
             THEN Raises("TypeError")
             ELSE Text(Join([i \in DOMAIN text_parts |-> text_parts[i].s]))

(***************************************************************************)
(* query_endpoint(message, history, user_id, client_id)                    *)
(***************************************************************************)
\* line 178: _sp_clients.get(user_id, w)
SelectDefault(cache, u) == DefaultClient
SelectClient(cache, u) == IF u \in DOMAIN cache THEN cache[u] ELSE DefaultClient

\* what client.api_client.do can do: raise, or return a body; raw is the place
\* of the body in BodySeq
Invocations ==
    {[raised |-> TRUE, raw |-> 0]}
        \cup {[raised |-> FALSE, raw |-> i] : i \in DOMAIN BodySeq}

\* lines 180-189: what the caller gets
QueryResult(inv) ==
    IF inv.raised THEN Text(<<"Error querying endpoint: ", "e">>)
    ELSE ExtractResponseText(BodySeq[inv.raw])

\* the conversation so far, as the chat widget passes it
Histories ==
    { <<>>,
      <<[role |-> "user", content |-> "q"], [role |-> "assistant", content |-> "a"]>>,
      <<[role |-> "user", content |-> "q"], [role |-> "assistant", content |-> "a"],
        [role |-> "user", content |-> "r"], [role |-> "assistant", content |-> "b"]>> }

\* lines 174-175
Messages(history, message) ==
    [i \in DOMAIN history |-> [role |-> history[i].role, content |-> history[i].content]]
        \o <<[role |-> "user", content |-> message]>>

\* one chat turn, with the history drawn from hs and the endpoint's behaviour
\* from invs.  The read of the cache is the turn's only access to state shared
\* with use_credentials, so the turn is one step.
ChatTurn(hs, invs) ==
    /\ calls < MaxCalls
    /\ \E u \in Users, h \in hs, inv \in invs :
        /\ ruser' = u
        /\ rinput' = Messages(h, "m")
        /\ rclient' = SelectClient(sp_clients, u)
        /\ rresult' = QueryResult(inv)
        /\ rraw' = <<inv.raised, inv.raw>>
        /\ rduring' = {t \in Threads : ~Idle(t) /\ user_id[t] = u}
    /\ calls' = calls + 1
    /\ UNCHANGED <<store, sp_clients, locals, secret, raced, hist, faults>>

\* a chat turn under every history and every behaviour of the endpoint
QueryEndpoint == ChatTurn(Histories, Invocations)

\* a chat turn beside use_credentials: what the turn returns never reaches the
\* state use_credentials reads, so the endpoint's answer is held fixed
Answer == BodySeq[4]
Answered == {[raised |-> FALSE, raw |-> 4]}
Turn == ChatTurn({<<>>}, Answered)

(***************************************************************************)
(* Specifications.                                                         *)
(***************************************************************************)
Init ==
    /\ sp_mapping = {} /\ client_mapping = {} /\ principals = {} /\ grants = {}
    /\ secrets = <<>> /\ inflight = {}
    /\ sp_clients = [u \in {} |-> DefaultClient]
    /\ pc = [t \in Threads |-> "idle"]
    /\ user_id = [t \in Threads |-> ""]
    /\ client_id = [t \in Threads |-> ""]
    /\ sp_application_id = [t \in Threads |-> None]
    /\ sp_numeric_id = [t \in Threads |-> None]
    /\ secret = [t \in Threads |-> 0]
    /\ log = [t \in Threads |-> <<>>]
    /\ hist = <<>> /\ calls = 0 /\ faults = 0
    /\ raced = {}
    /\ ruser = "" /\ rclient = DefaultClient /\ rinput = <<>>
    /\ rresult = [kind |-> "none", parts |-> <<>>]
    /\ rraw = <<FALSE, 0>>
    /\ rduring = {}

Bind(t) ==
    \/ Begin(t) \/ Lookup(t) \/ ListPrincipals(t) \/ CreatePrincipal(t)
    \/ InsertMapping(t) \/ UpsertClient(t) \/ GetEndpoint(t) \/ GrantEndpoint(t)
    \/ GrantGenie(t) \/ GrantCatalog(t) \/ GrantSchema(t) \/ GrantTable(t)
    \/ MintSecret(t) \/ CacheClient(t)

\* handler threads run use_credentials concurrently
Next ==
    \/ \E t \in Threads : Bind(t)
    \/ WarehouseComplete \/ WarehouseFail

Spec == Init /\ [][Next]_vars

\* one use_credentials call at a time, beside the chat turns
NextSeq ==
    \/ Bind("t1")
    \/ WarehouseComplete \/ WarehouseFail
    \/ Turn

SpecSeq == Init /\ [][NextSeq]_vars

\* the chat turns alone
NextChat == QueryEndpoint

SpecChat == Init /\ [][NextChat]_vars

(***************************************************************************)
(* Properties.                                                             *)
(***************************************************************************)
\* the finished calls for user u, in order of return
CallsFor(u) == SelectSeq(hist, LAMBDA e : e.user = u)
Timeout(e) == \E i \in DOMAIN e.log : e.log[i].status = "PENDING"
RealUsers == Users \ {""}

\* C1 (idempotence): when the first two calls for a user u both succeed with
\* the same client c, the directory then holds exactly one principal sp-<u>,
\* the user->principal table one row for u, and the principal->client table
\* one row for that principal, with value c.
C1_Idempotence ==
    \A u \in RealUsers :
        LET h == CallsFor(u) IN
        (/\ Len(h) >= 2
         /\ h[1].result = "success" /\ h[2].result = "success"
         /\ h[1].client = h[2].client)
        => /\ Cardinality(h[2].sps) = 1
           /\ h[2].rows = h[2].sps
           /\ h[2].crows = {[username |-> a, client_id |-> h[2].client] : a \in h[2].sps}

\* C2 (client rebinding): when two successive calls for a user u both succeed,
\* with clients c1 # c2, the second leaves the principals named sp-<u> and the
\* user->principal rows of u as the first left them, and the principal->client
\* table then holds one row per principal of u, with value c2.
C2_Rebinding ==
    \A u \in RealUsers :
        LET h == CallsFor(u) IN
        \A i \in 1..(Len(h) - 1) :
            (/\ h[i].result = "success" /\ h[i + 1].result = "success"
             /\ h[i].client # h[i + 1].client)
            => /\ h[i + 1].sps = h[i].sps
               /\ h[i + 1].rows = h[i].rows
               /\ h[i + 1].crows =
                      {[username |-> a, client_id |-> h[i + 1].client] : a \in h[i].rows}

\* C3 (validation): a call with an empty user_id or client_id ends at the
\* guard with the validation status and no service call issued, and the step
\* that returns it changes no table, no principal, no grant, no secret and no
\* cache entry.
C3_Guard ==
    \A t \in Threads :
        (pc[t] # "idle" /\ (user_id[t] = "" \/ client_id[t] = ""))
        => pc[t] = "validation" /\ log[t] = <<>>
C3_Validation ==
    /\ []C3_Guard
    /\ [][(Len(hist') = Len(hist) + 1 /\ hist'[Len(hist')].result = "validation")
          => /\ hist'[Len(hist')].log = <<>>
             /\ hist'[Len(hist')].user = "" \/ hist'[Len(hist')].client = ""
             /\ UNCHANGED <<store, sp_clients>>]_vars
C3_Witness ==
    \E i \in DOMAIN hist :
        /\ hist[i].result = "validation" /\ hist[i].user = "u1" /\ hist[i].client = ""
        /\ \E j \in DOMAIN hist : hist[j].result = "validation" /\ hist[j].user = ""

\* C4 (retry convergence): when the first call for u is aborted by one failed
\* step and the next call for u, with the same client, runs with every service
\* call succeeding, the stores then are as after one failure-free call: one
\* principal sp-<u>, one user->principal row, the client row holding c, and a
\* cached client for u.
Failure(x) == x.status \in {"FAILED", "raise"}
AbortedByOneFailure(e) ==
    /\ e.result = "raised" /\ e.log # <<>>
    /\ \A i \in DOMAIN e.log : Ok(e.log[i].status) <=> i # Len(e.log)
    /\ Failure(e.log[Len(e.log)])
FailureFree(e) ==
    e.result = "success" /\ \A i \in DOMAIN e.log : Ok(e.log[i].status)
C4_RetryConverges ==
    \A u \in RealUsers :
        LET h == CallsFor(u) IN
        (/\ Len(h) >= 2
         /\ AbortedByOneFailure(h[1]) /\ FailureFree(h[2])
         /\ h[1].client = h[2].client)
        => /\ Cardinality(h[2].sps) = 1
           /\ h[2].rows = h[2].sps
           /\ h[2].crows = {[username |-> a, client_id |-> h[2].client] : a \in h[2].sps}
           /\ u \in DOMAIN sp_clients

\* C5 (grant completeness and order): a successful call has issued, after the
\* MERGE and before the secret, the endpoint lookup, one CAN_QUERY entry on
\* the serving endpoint, one CAN_RUN entry on the space, and the catalog,
\* schema and table GRANTs, in that order and each once, all for the
\* application id of the MERGE and of the cached client.
GrantOrder ==
    <<"MERGE", "GET_ENDPOINT", "ACL_ENDPOINT", "ACL_GENIE", "GRANT_CATALOG",
      "GRANT_SCHEMA", "GRANT_TABLE", "SECRET", "CACHE">>
Tail9(l) == SubSeq(l, Len(l) - Len(GrantOrder) + 1, Len(l))
C5_GrantOrder ==
    \A i \in DOMAIN hist :
        hist[i].result = "success" =>
            LET l == hist[i].log
                a == hist[i].stored.client_id
            IN  /\ Len(l) >= Len(GrantOrder)
                /\ [k \in 1..Len(GrantOrder) |-> Tail9(l)[k].op] = GrantOrder
                /\ \A k \in DOMAIN l : \A j \in DOMAIN l :
                       (l[k].op = l[j].op) => k = j
                /\ \A k \in DOMAIN l :
                       l[k].op \in {"MERGE", "ACL_ENDPOINT", "ACL_GENIE", "GRANT_CATALOG",
                                    "GRANT_SCHEMA", "GRANT_TABLE"} => l[k].arg = a
                /\ [resource |-> "serving-endpoint", principal |-> a, level |-> "CAN_QUERY"]
                       \in grants
                /\ [resource |-> "genie", principal |-> a, level |-> "CAN_RUN"] \in grants
C5_Witness ==
    \E i \in DOMAIN hist : \E j \in DOMAIN hist :
        /\ i < j /\ hist[i].result = "success" /\ hist[j].result = "success"
        /\ hist[i].user = hist[j].user
        /\ hist[j].log[1].status = "SUCCEEDED" /\ hist[j].log[2].op = "LIST"

\* C6 (router fallback): a chat turn for user u goes through the default
\* client when no call for u has succeeded, and otherwise through the client
\* the latest successful call for u stored.
Successes(u) == SelectSeq(hist, LAMBDA e : e.user = u /\ e.result = "success")
Expected(u) ==
    IF Successes(u) = <<>> THEN DefaultClient
    ELSE Successes(u)[Len(Successes(u))].stored
C7_InsertFailureAborts ==
    \A i \in DOMAIN hist :
        \A k \in DOMAIN hist[i].log :
            (hist[i].log[k].op = "INSERT" /\ hist[i].log[k].status = "FAILED")
            => hist[i].result = "raised" /\ k = Len(hist[i].log)
C7_Live ==
    \A t \in Threads :
        \A k \in DOMAIN log[t] :
            (log[t][k].op = "INSERT" /\ log[t][k].status = "FAILED")
            => pc[t] = "raised" /\ k = Len(log[t])
C7_ExecutionFailure == C7_InsertFailureAborts /\ C7_Live
C7_Witness ==
    \E i \in DOMAIN hist :
        /\ hist[i].result = "raised"
        /\ hist[i].log[Len(hist[i].log)] =
               [op |-> "INSERT", arg |-> "app-1", status |-> "FAILED"]
        /\ SpsOf(hist[i].user) # {} /\ SelectPrincipal(hist[i].user) = {}

\* C8 (a timeout is a failure): a statement still PENDING when
\* execute_statement returns aborts the call: it is the last call the handler
\* issued and the handler has raised.
C8_TimeoutIsFailure ==
    \A t \in Threads :
        \A k \in DOMAIN log[t] :
            log[t][k].status = "PENDING" => pc[t] = "raised" /\ k = Len(log[t])

\* C9 (the chat turn never raises): whatever the invocation does and returns,
\* query_endpoint gives its caller a text.
C9_NeverRaises == rresult.kind # "raise"

\* C10 (provisioning race): two principals named sp-<u> together with two
\* user->principal rows for u arise when two calls for u overlap (witness),
\* and only then.
Duplicated(u) == Cardinality(SpsOf(u)) >= 2 /\ Cardinality(SelectPrincipal(u)) >= 2
C10_DuplicateOnlyByRace == \A u \in RealUsers : Duplicated(u) => u \in raced
C10_Race == \E u \in RealUsers : Duplicated(u) /\ u \in raced /\ faults = 0

\* the five permissions use_credentials asks for on principal a
Asked(a) ==
    { [resource |-> "serving-endpoint", principal |-> a, level |-> "CAN_QUERY"],
      [resource |-> "genie", principal |-> a, level |-> "CAN_RUN"],
      UcGrant("catalog", a), UcGrant("schema", a), UcGrant("table", a) }
\* a chat turn is the step that counts a call and moves no use_credentials call
TurnStep == calls' = calls + 1 /\ hist' = hist /\ pc' = pc

\* C11 (benign cache race): a chat turn for user u beside a call of
\* use_credentials for u goes through the default client or through a client
\* some finished call for u stored; while the call is under way that is the
\* client the calls before it left, and when the turn goes through a stored
\* client every permission asked for that client's principal is in force and
\* its secret is minted.
C11_BenignRace ==
    [][TurnStep =>
          /\ rduring' # {} => rclient' = Expected(ruser')
          /\ \/ rclient' = DefaultClient
             \/ /\ \E i \in DOMAIN hist :
                     /\ hist[i].user = ruser' /\ hist[i].result = "success"
                     /\ hist[i].stored = rclient'
                /\ Asked(rclient'.client_id) \subseteq grants
                /\ rclient'.client_secret \in DOMAIN secrets]_vars

\* the text fragments of a response body as section 4.4 of the specification
\* lists them: the text of the output_text blocks of message items, the text
\* field of other items, and the string items
FragmentOfBlock(b) ==
    IF b.t = "dict" /\ b.type = JStr("output_text") /\ b.text.t = "str"
    THEN <<b.text.s>> ELSE <<>>
FragmentsOfItem(it) ==
    IF it.t = "str" THEN <<it.s>>
    ELSE IF it.t # "dict" THEN <<>>
    ELSE IF it.type = JStr("message")
    THEN IF it.content.t = "list"
         THEN Flatten([i \in DOMAIN it.content.items |-> FragmentOfBlock(it.content.items[i])])
         ELSE <<>>
    ELSE IF it.text.t = "str" THEN <<it.text.s>>
    ELSE <<>>
Fragments(output) ==
    IF output.t = "list"
    THEN Flatten([i \in DOMAIN output.items |-> FragmentsOfItem(output.items[i])])
    ELSE <<>>

\* a text is held as the pieces that make it up: two texts are the same string
\* when they differ in empty pieces only
SameText(r, pieces) ==
    /\ r.kind = "text"
    /\ SelectSeq(r.parts, LAMBDA s : s # "") = SelectSeq(pieces, LAMBDA s : s # "")
\* C12 (response extraction): whatever body the endpoint returned, the chat
\* turn gives the text fragments of the output list, in encounter order and
\* separated by blank lines, and a diagnostic naming the body's top-level keys
\* when the body has no output.
C12_Extraction ==
    (calls > 0 /\ ~rraw[1]) =>
        LET raw == BodySeq[rraw[2]]
            output == Output(raw)
        IN
        IF Falsy(output)
        THEN SameText(rresult, <<"No response parsed. Raw response keys: ">> \o raw.keys)
        ELSE SameText(rresult, Join(Fragments(output)))

\* C13 (one row per username): after use_credentials calls made one at a
\* time, however each ended, the user->principal table holds at most one row
\* for a username, and every row a finished call saw for its user is still
\* there unchanged.
C13_OneRowPerUser ==
    /\ \A u \in RealUsers : Cardinality({r \in sp_mapping : r.username = u}) <= 1
    /\ \A i \in DOMAIN hist : hist[i].rows \subseteq SelectPrincipal(hist[i].user)

\* whether a log shows a MERGE for principal a as sent and not rejected
Upserted(lg, a) ==
    \E k \in DOMAIN lg : lg[k].op = "MERGE" /\ lg[k].arg = a /\ lg[k].status # "FAILED"
\* the client rows of principal a
ClientsOf(a) == {r.client_id : r \in {x \in client_mapping : x.username = a}}
\* the client_id of the latest call that passed its upsert of principal a
LatestUpsert(a) ==
    LET done == SelectSeq(hist, LAMBDA e : Upserted(e.log, a))
        now == {t \in Threads : ~Idle(t) /\ Upserted(log[t], a)}
    IN  IF now # {} THEN {client_id[t] : t \in now}
        ELSE IF done # <<>> THEN {done[Len(done)].client}
        ELSE {}

\* C14 (one client per principal): the principal->client table holds at most
\* one row for a principal, and the row of a principal whose latest call
\* passed its upsert holds the client_id of that call.
C14_OneClientPerPrincipal ==
    \A sp \in principals :
        /\ Cardinality({r \in client_mapping : r.username = sp.application_id}) <= 1
        /\ LatestUpsert(sp.application_id) # {}
               => ClientsOf(sp.application_id) = LatestUpsert(sp.application_id)

\* thread t's call has come to the POST that mints the secret
AtMint(t) == pc[t] = "secret" \/ \E k \in DOMAIN log[t] : log[t][k].op = "SECRET"

\* C15 (numeric id resolved): a call that has come to the minting of the
\* secret holds a numeric id, and it is the numeric id of the directory
\* principal whose application id the call's INSERT, MERGE, ACL entries and
\* GRANTs name; the secret is asked for that numeric id.
C15_NumericIdResolved ==
    \A t \in Threads :
        AtMint(t) =>
            /\ sp_numeric_id[t] # None
            /\ \E sp \in principals :
                   sp.id = sp_numeric_id[t] /\ sp.application_id = sp_application_id[t]
            /\ \A k \in DOMAIN log[t] :
                   /\ log[t][k].op \in {"INSERT", "MERGE", "ACL_ENDPOINT", "ACL_GENIE",
                                        "GRANT_CATALOG", "GRANT_SCHEMA", "GRANT_TABLE"}
                          => log[t][k].arg = sp_application_id[t]
                   /\ log[t][k].op = "SECRET" => log[t][k].arg = sp_numeric_id[t]
\* a call that found its principal through the stored row and the listing by
\* display name stands at the minting of the secret
C15_Witness ==
    /\ pc["t1"] = "secret" /\ Len(log["t1"]) >= 2
    /\ log["t1"][1].op = "SELECT" /\ log["t1"][2].op = "LIST"
    /\ sp_numeric_id["t1"] # None

\* C16 (cache frame): _sp_clients changes only in the step that ends a call
\* with the success status, after the secret was minted, and that step changes
\* the entry of the call's user_id and no other; a call that ends at the
\* validation or with an exception leaves every entry as it was.
C16_CacheFrame ==
    [][/\ sp_clients' # sp_clients =>
              \E t \in Threads :
                  /\ pc[t] = "cache" /\ pc'[t] = "success"
                  /\ log[t] # <<>> /\ log[t][Len(log[t])] = [op |-> "SECRET", arg |-> sp_numeric_id[t], status |-> "ok"]
                  /\ hist' = Append(hist, hist'[Len(hist')])
                  /\ hist'[Len(hist')].result = "success"
                  /\ DOMAIN sp_clients' = DOMAIN sp_clients \cup {user_id[t]}
                  /\ \A v \in DOMAIN sp_clients \ {user_id[t]} : sp_clients'[v] = sp_clients[v]
       /\ (Len(hist') > Len(hist) /\ hist'[Len(hist')].result # "success")
              => sp_clients' = sp_clients]_vars
\* a call for u1 was aborted after an earlier call for u1 had stored a client,
\* and the stored client is still the cache entry
C16_Witness ==
    /\ Len(hist) = 2
    /\ hist[1].user = "u1" /\ hist[1].result = "success"
    /\ hist[2].user = "u1" /\ hist[2].result = "raised"
    /\ "u1" \in DOMAIN sp_clients /\ sp_clients["u1"] = hist[1].stored

\* C17 (cache/store consistency): a user with a cache entry has a row in the
\* user->principal table, and the cached client is authenticated as the
\* principal that row names.
C17_CacheStoreConsistency ==
    \A u \in DOMAIN sp_clients :
        /\ SelectPrincipal(u) # {}
        /\ sp_clients[u].client_id \in SelectPrincipal(u)

\* the user a directory principal was created for, by its display name
CreatedFor(a, u) ==
    \E sp \in principals : sp.application_id = a /\ sp.display_name = DisplayName(u)

\* C18 (user isolation): no principal is recorded for two user ids; the cached
\* client of a user is authenticated as a principal created for that user and
\* recorded for no other; and a step of a call for one user changes the
\* principal->client row of no principal but one created for that user.
C18_Rows ==
    /\ \A r1, r2 \in sp_mapping :
           r1.service_principal_id = r2.service_principal_id => r1.username = r2.username
    /\ \A u \in DOMAIN sp_clients :
           /\ CreatedFor(sp_clients[u].client_id, u)
           /\ \A r \in sp_mapping :
                  r.service_principal_id = sp_clients[u].client_id => r.username = u
C18_Isolation ==
    /\ []C18_Rows
    /\ [][\A t \in Threads : \A sp \in principals :
              (/\ log'[t] # log[t]
               /\ {r \in client_mapping' : r.username = sp.application_id}
                      # {r \in client_mapping : r.username = sp.application_id})
                  => sp.display_name = DisplayName(user_id[t])]_vars
\* two users hold a cached client each, of two principals, each recorded for
\* its own user
C18_Witness ==
    /\ {"u1", "u2"} \subseteq DOMAIN sp_clients
    /\ sp_clients["u1"].client_id # sp_clients["u2"].client_id
    /\ \E r \in sp_mapping : r.username = "u1" /\ r.service_principal_id = sp_clients["u1"].client_id
    /\ \E r \in sp_mapping : r.username = "u2" /\ r.service_principal_id = sp_clients["u2"].client_id
    /\ \E r \in client_mapping : r.username = sp_clients["u2"].client_id

====
